---- MODULE Spec2Model ----
(***************************************************************************)
(* Model of the device rental monitoring dashboard (src/app.py).           *)
(*                                                                         *)
(* The dashboard is a Streamlit script: every user interaction re-runs     *)
(* main() from the top with the widget values the runtime retains.  A      *)
(* state of the model is the state just after one complete run of main():  *)
(* the widget values the run saw, the wall-clock instant it read, and      *)
(* everything it drew.                                                     *)
(*                                                                         *)
(* Representation choices:                                                 *)
(*  - a DataFrame is a sequence of records (row order = index order);      *)
(*  - a datetime at midnight is a record [year, month, day]; the instant   *)
(*    datetime.now() returns is a count of ticks since ordinal day 0, with *)
(*    TicksPerDay ticks in a day (the real clock has 86400 * 10^6);        *)
(*  - a float64 is [kind, num, den]: an exact rational in lowest terms,    *)
(*    a signed infinity, or NaN (rounding is not modelled);                *)
(*  - a formatted string is the sequence of its characters.                *)
(***************************************************************************)
EXTENDS Integers, Sequences, FiniteSets, TLC

VARIABLES
    current_date,        \* datetime.now() read by the last run (ticks)
    device_tipo_filter,  \* value of the multiselect (selection order)
    device_select,       \* value of the device selectbox
    new_status,          \* value of the status selectbox
    button,              \* TRUE iff the last run was caused by the button
    stage,               \* how far main() has got: "built", "derived", "rendered"
    df_in,               \* frame returned by generate_sample_data()
    df_roi,              \* frame returned by calculate_roi()
    df,                  \* frame at the end of main() (roi and dias columns)
    tab1,                \* what the run drew in "Resumen del Tablero"
    tab2,                \* ... in "Analisis de ROI y Finanzas"
    tab3,                \* ... in "Gestion de Dispositivos"
    tab4                 \* ... in "Seguimiento de Alquileres"

vars == <<current_date, device_tipo_filter, device_select, new_status, button,
          stage, df_in, df_roi, df, tab1, tab2, tab3, tab4>>

(***************************************************************************)
(* Bounds of the model.                                                    *)
(***************************************************************************)
TicksPerDay == 2      \* clock resolution: instants per calendar day
MaxDays == 31         \* the clock runs over MaxDays + 1 calendar days
MaxAdvance == 1       \* ticks that may pass between two runs
MaxLen == 2           \* rows of a frame given to calculate_roi alone
MaxCost == 2          \* costo_mantenimiento of such a row: 0..MaxCost
MaxIncome == 3        \* ingreso_arrendamiento of such a row: 0..MaxIncome

FirstDay == [year |-> 2024, month |-> 9, day |-> 15]

(***************************************************************************)
(* datetime arithmetic (proleptic Gregorian ordinals, as datetime does).   *)
(***************************************************************************)
datetime(y, m, d) == [year |-> y, month |-> m, day |-> d]

IsLeap(y) == (y % 4 = 0) /\ ((y % 100 # 0) \/ (y % 400 = 0))

DaysInMonth(y, m) ==
    IF m = 2 THEN (IF IsLeap(y) THEN 29 ELSE 28)
    ELSE IF m \in {4, 6, 9, 11} THEN 30 ELSE 31

RECURSIVE DaysBeforeMonth(_, _)
DaysBeforeMonth(y, m) ==
    IF m = 1 THEN 0 ELSE DaysBeforeMonth(y, m - 1) + DaysInMonth(y, m - 1)

DaysBeforeYear(y) ==
    LET p == y - 1 IN p * 365 + (p \div 4) - (p \div 100) + (p \div 400)

toordinal(dt) == DaysBeforeYear(dt.year) + DaysBeforeMonth(dt.year, dt.month) + dt.day

\* The instant of a datetime at midnight, in ticks.
Instant(dt) == toordinal(dt) * TicksPerDay

\* (a - b).days for a datetime a at midnight and an instant b: timedelta
\* normalises to days + a non-negative remainder, so .days is the floor.
DeltaDays(a, b) == (Instant(a) - b) \div TicksPerDay

\* The calendar day (ordinal) an instant falls on.
DateOf(t) == t \div TicksPerDay

\* Instants datetime.now() can return in the modelled period.
FirstNow == Instant(FirstDay)
LastNow == FirstNow + (MaxDays + 1) * TicksPerDay - 1
Clock == FirstNow .. LastNow

(***************************************************************************)
(* generate_sample_data                                                    *)
(***************************************************************************)
devices ==
    << [device_id |-> "P001", tipo |-> "Impresora", model |-> "HP LaserJet",
        total_copies |-> 15000, costo_mantenimiento |-> 500,
        ingreso_arrendamiento |-> 2000,
        inicio_arrendamiento |-> datetime(2024, 1, 1),
        final_arrendamiento |-> datetime(2024, 12, 31),
        status |-> "Activo", cliente |-> "Compania A"],
       [device_id |-> "P002", tipo |-> "Impresora", model |-> "Canon ImageRUNNER",
        total_copies |-> 22000, costo_mantenimiento |-> 750,
        ingreso_arrendamiento |-> 2500,
        inicio_arrendamiento |-> datetime(2024, 2, 15),
        final_arrendamiento |-> datetime(2024, 11, 15),
        status |-> "Activo", cliente |-> "Compania B"],
       [device_id |-> "C001", tipo |-> "Computadora", model |-> "Dell Latitude",
        total_copies |-> 0, costo_mantenimiento |-> 300,
        ingreso_arrendamiento |-> 1500,
        inicio_arrendamiento |-> datetime(2024, 3, 1),
        final_arrendamiento |-> datetime(2024, 12, 31),
        status |-> "Activo", cliente |-> "Compania C"],
       [device_id |-> "C002", tipo |-> "Computadora", model |-> "MacBook Pro",
        total_copies |-> 0, costo_mantenimiento |-> 450,
        ingreso_arrendamiento |-> 1800,
        inicio_arrendamiento |-> datetime(2024, 1, 15),
        final_arrendamiento |-> datetime(2024, 10, 15),
        status |-> "Mantenimiento", cliente |-> "Compania D"] >>

\* Faulty builder: the update confirmed by the previous run was written back.
generate_sample_data_persisted ==
    IF button
    THEN [i \in DOMAIN devices |->
            IF devices[i].device_id = device_select
            THEN [devices[i] EXCEPT !.status = new_status]
            ELSE devices[i]]
    ELSE devices

\* Faulty builder: leases that ended before the previous run are dropped.
generate_sample_data_pruned ==
    SelectSeq(devices, LAMBDA r : DeltaDays(r.final_arrendamiento, current_date) >= 0)

generate_sample_data == devices

(***************************************************************************)
(* float64 arithmetic on the values calculate_roi meets                    *)
(***************************************************************************)
Abs(n) == IF n < 0 THEN -n ELSE n

Sign(n) == IF n < 0 THEN -1 ELSE IF n > 0 THEN 1 ELSE 0

RECURSIVE GCD(_, _)
GCD(a, b) == IF b = 0 THEN a ELSE GCD(b, a % b)

NaN == [kind |-> "nan", num |-> 0, den |-> 0]

Inf(sign) == [kind |-> "inf", num |-> sign, den |-> 0]

\* The rational n / d (d # 0) in lowest terms with a positive denominator.
Finite(n, d) ==
    LET g == GCD(Abs(n), Abs(d))
    IN  [kind |-> "finite", num |-> Sign(d) * (n \div g), den |-> Abs(d) \div g]

\* int64 / int64 element-wise: true division, x/0 is +-inf and 0/0 is NaN.
TrueDiv(a, b) ==
    IF b # 0 THEN Finite(a, b)
    ELSE IF a = 0 THEN NaN ELSE Inf(Sign(a))

\* float64 * k for an integer k > 0.
Times(x, k) ==
    IF x.kind = "finite" THEN Finite(x.num * k, x.den) ELSE x

(***************************************************************************)
(* calculate_roi                                                           *)
(***************************************************************************)
WithColumn(r, c, v) == [f \in (DOMAIN r) \cup {c} |-> IF f = c THEN v ELSE r[f]]

\* Faulty calculator: the margin is divided by the income, not the cost.
calculate_roi_on_income(frame) ==
    [i \in DOMAIN frame |->
        WithColumn(frame[i], "roi",
            Times(TrueDiv(frame[i].ingreso_arrendamiento - frame[i].costo_mantenimiento,
                          frame[i].ingreso_arrendamiento), 100))]

calculate_roi(frame) ==
    [i \in DOMAIN frame |->
        WithColumn(frame[i], "roi",
            Times(TrueDiv(frame[i].ingreso_arrendamiento - frame[i].costo_mantenimiento,
                          frame[i].costo_mantenimiento), 100))]

(***************************************************************************)
(* pandas helpers                                                          *)
(***************************************************************************)
Range(s) == {s[i] : i \in DOMAIN s}

Column(frame, c) == [i \in DOMAIN frame |-> frame[i][c]]

RECURSIVE sum(_)
sum(s) == IF s = <<>> THEN 0 ELSE s[1] + sum(Tail(s))

\* Series.unique(): the distinct values in order of first appearance.
RECURSIVE unique(_)
unique(s) ==
    IF s = <<>> THEN <<>>
    ELSE LET init == unique(SubSeq(s, 1, Len(s) - 1))
             last == s[Len(s)]
         IN  IF last \in Range(init) THEN init ELSE Append(init, last)

\* Series.value_counts(): how often each value that occurs occurs.
value_counts(s) == [v \in Range(s) |-> Cardinality({i \in DOMAIN s : s[i] = v})]

\* frame[[c1, c2, ...]]
Project(frame, cols) == [i \in DOMAIN frame |-> [c \in cols |-> frame[i][c]]]

\* min / max of a set of datetimes.
min(S) == CHOOSE x \in S : \A y \in S : toordinal(x) <= toordinal(y)

max(S) == CHOOSE x \in S : \A y \in S : toordinal(x) >= toordinal(y)

(***************************************************************************)
(* f"${x:,.2f}" for an integer x                                           *)
(***************************************************************************)
DigitChar(d) == <<"0", "1", "2", "3", "4", "5", "6", "7", "8", "9">>[d + 1]

RECURSIVE Digits(_)
Digits(n) == IF n < 10 THEN <<DigitChar(n)>> ELSE Append(Digits(n \div 10), DigitChar(n % 10))

Three(n) == <<DigitChar(n \div 100), DigitChar((n \div 10) % 10), DigitChar(n % 10)>>

RECURSIVE Grouped(_)
Grouped(n) ==
    IF n < 1000 THEN Digits(n) ELSE Grouped(n \div 1000) \o <<",">> \o Three(n % 1000)

FormatMoney(x) ==
    <<"$">> \o (IF x < 0 THEN <<"-">> ELSE <<>>) \o Grouped(Abs(x)) \o <<".", "0", "0">>

(***************************************************************************)
(* main(): the four tabs                                                   *)
(***************************************************************************)
isin(frame, c, values) == SelectSeq(frame, LAMBDA r : r[c] \in Range(values))

\* Faulty Overview: the metrics are taken over the rows the Inventory filter
\* of the previous run kept.
Overview_filtered(frame) ==
    LET kept == isin(frame, "tipo", device_tipo_filter)
    IN  [total |-> Len(kept),
         ingreso |-> FormatMoney(sum(Column(kept, "ingreso_arrendamiento"))),
         costo |-> FormatMoney(sum(Column(kept, "costo_mantenimiento"))),
         activos |-> Len(SelectSeq(kept, LAMBDA r : r.status = "Active")),
         status_counts |-> value_counts(Column(kept, "status"))]

\* Faulty Overview: active devices are counted with the stored literal.
Overview_activo(frame) ==
    [total |-> Len(frame),
     ingreso |-> FormatMoney(sum(Column(frame, "ingreso_arrendamiento"))),
     costo |-> FormatMoney(sum(Column(frame, "costo_mantenimiento"))),
     activos |-> Len(SelectSeq(frame, LAMBDA r : r.status = "Activo")),
     status_counts |-> value_counts(Column(frame, "status"))]

\* tab1: the four metrics and the status pie chart.
Overview(frame) ==
    [total |-> Len(frame),
     ingreso |-> FormatMoney(sum(Column(frame, "ingreso_arrendamiento"))),
     costo |-> FormatMoney(sum(Column(frame, "costo_mantenimiento"))),
     activos |-> Len(SelectSeq(frame, LAMBDA r : r.status = "Active")),
     status_counts |-> value_counts(Column(frame, "status"))]

\* tab2: the ROI bar chart and the maintenance-cost pie chart.
Finance(frame) ==
    [fig_roi |-> [i \in DOMAIN frame |->
                    [x |-> frame[i].device_id, y |-> frame[i].roi,
                     color |-> frame[i].tipo]],
     fig_cost |-> [i \in DOMAIN frame |->
                    [names |-> frame[i].device_id,
                     values |-> frame[i].costo_mantenimiento]]]

InventoryColumns ==
    {"device_id", "tipo", "model", "status", "cliente",
     "ingreso_arrendamiento", "costo_mantenimiento"}

\* Options (and default) of the category multiselect.
TipoOptions(frame) == unique(Column(frame, "tipo"))

\* Options of the device selectbox.
DeviceOptions(frame) == Column(frame, "device_id")

\* Options of the status selectbox.
StatusOptions == <<"Activo", "Mantenimiento", "Inactivo">>

\* st.success(f"Estado de {device_select} actualizado a {new_status}")
success(dev, st) == <<"Estado de ", dev, " actualizado a ", st>>

NoMessage == <<>>

\* Faulty filter: the selection is ignored when it is empty.
filtered_all_when_empty(frame, sel) ==
    IF sel = <<>> THEN frame ELSE isin(frame, "tipo", sel)

filtered(frame, sel) == isin(frame, "tipo", sel)

\* tab3: the filtered inventory table and the status-update control.
Inventory(frame, sel, dev, st, pressed) ==
    LET filtered_df == filtered(frame, sel)
    IN  [filtered_df |-> filtered_df,
         table |-> Project(filtered_df, InventoryColumns),
         message |-> IF pressed THEN success(dev, st) ELSE NoMessage]

\* df['dias_para_vencimiento'] = (df['final_arrendamiento'] - current_date).dt.days
with_dias(frame, now) ==
    [i \in DOMAIN frame |->
        WithColumn(frame[i], "dias_para_vencimiento",
                   DeltaDays(frame[i].final_arrendamiento, now))]

\* Faulty selection: a lease ending in exactly 60 days is left out.
expiring_strict(frame) == SelectSeq(frame, LAMBDA r : r.dias_para_vencimiento < 60)

expiring(frame) == SelectSeq(frame, LAMBDA r : r.dias_para_vencimiento <= 60)

LeaseColumns ==
    {"device_id", "tipo", "cliente", "inicio_arrendamiento",
     "final_arrendamiento", "dias_para_vencimiento"}

\* groupby sorts the group keys; these are the known categories in that order.
TipoSorted == <<"Computadora", "Impresora">>

GroupKeys(frame) ==
    SelectSeq(TipoSorted, LAMBDA k : k \in Range(Column(frame, "tipo")))

\* Faulty summary: the end of a group's lease window is its earliest end.
lease_summary_min_end(frame) ==
    LET keys == GroupKeys(frame)
    IN  [j \in DOMAIN keys |->
            LET group == SelectSeq(frame, LAMBDA r : r.tipo = keys[j])
            IN  [tipo |-> keys[j],
                 device_id |-> Len(group),
                 ingreso_arrendamiento |-> sum(Column(group, "ingreso_arrendamiento")),
                 inicio_arrendamiento |-> min(Range(Column(group, "inicio_arrendamiento"))),
                 final_arrendamiento |-> min(Range(Column(group, "final_arrendamiento")))]]

\* df.groupby('tipo').agg({count, sum, min, max}).reset_index()
lease_summary(frame) ==
    LET keys == GroupKeys(frame)
    IN  [j \in DOMAIN keys |->
            LET group == SelectSeq(frame, LAMBDA r : r.tipo = keys[j])
            IN  [tipo |-> keys[j],
                 device_id |-> Len(group),
                 ingreso_arrendamiento |-> sum(Column(group, "ingreso_arrendamiento")),
                 inicio_arrendamiento |-> min(Range(Column(group, "inicio_arrendamiento"))),
                 final_arrendamiento |-> max(Range(Column(group, "final_arrendamiento")))]]

\* tab4: the expiration warning and the lease summary, from the frame that
\* already carries dias_para_vencimiento.
Leases(frame) ==
    LET expiring_soon == expiring(frame)
    IN  [expiring_soon |-> expiring_soon,
         notice |-> IF expiring_soon # <<>> THEN "warning" ELSE "info",
         table |-> IF expiring_soon # <<>>
                   THEN Project(expiring_soon, LeaseColumns) ELSE <<>>,
         lease_summary |-> lease_summary(frame)]

(***************************************************************************)
(* One run of main() with the widget values the runtime hands it and the   *)
(* instant datetime.now() returns.                                         *)
(***************************************************************************)
main(sel, dev, st, pressed, now) ==
    /\ current_date' = now
    /\ device_tipo_filter' = sel
    /\ device_select' = dev
    /\ new_status' = st
    /\ button' = pressed
    /\ stage' = "rendered"
    /\ df_in' = generate_sample_data
    /\ df_roi' = calculate_roi(df_in')
    /\ tab1' = Overview(df_roi')
    /\ tab2' = Finance(df_roi')
    /\ tab3' = Inventory(df_roi', sel, dev, st, pressed)
    /\ df' = with_dias(df_roi', now)
    /\ tab4' = Leases(df')

\* The values the multiselect can hold: the options picked, in picking order.
Selections ==
    {s \in UNION {[1..n -> Range(TipoOptions(devices))] : n \in 0..Len(TipoOptions(devices))} :
        \A i, j \in DOMAIN s : i # j => s[i] # s[j]}

\* The instants the next run can read: the clock does not go back.
Later ==
    current_date .. (IF current_date + MaxAdvance <= LastNow
                     THEN current_date + MaxAdvance ELSE LastNow)

\* First load of the page: every widget at its default.
Init ==
    /\ current_date \in Clock
    /\ device_tipo_filter = TipoOptions(devices)
    /\ device_select = DeviceOptions(devices)[1]
    /\ new_status = StatusOptions[1]
    /\ button = FALSE
    /\ stage = "rendered"
    /\ df_in = generate_sample_data
    /\ df_roi = calculate_roi(df_in)
    /\ tab1 = Overview(df_roi)
    /\ tab2 = Finance(df_roi)
    /\ tab3 = Inventory(df_roi, device_tipo_filter, device_select, new_status, button)
    /\ df = with_dias(df_roi, current_date)
    /\ tab4 = Leases(df)

\* The user changes the category filter.
ChangeFilter ==
    \E sel \in Selections \ {device_tipo_filter}, now \in Later :
        main(sel, device_select, new_status, FALSE, now)

\* The user picks another device in the selectbox.
SelectDevice ==
    \E dev \in Range(DeviceOptions(df)) \ {device_select}, now \in Later :
        main(device_tipo_filter, dev, new_status, FALSE, now)

\* The user picks another status in the selectbox.
SelectStatus ==
    \E st \in Range(StatusOptions) \ {new_status}, now \in Later :
        main(device_tipo_filter, device_select, st, FALSE, now)

\* The user clicks "Estado de actualizacion".
ClickButton ==
    \E now \in Later :
        main(device_tipo_filter, device_select, new_status, TRUE, now)

\* The script is re-run with the widget values kept.
Rerun ==
    \E now \in Later :
        main(device_tipo_filter, device_select, new_status, FALSE, now)

\* The page is reloaded: the widgets go back to their defaults.
Reload ==
    \E now \in Later :
        main(TipoOptions(devices), DeviceOptions(devices)[1], StatusOptions[1], FALSE, now)

Next ==
    \/ ChangeFilter
    \/ SelectDevice
    \/ SelectStatus
    \/ ClickButton
    \/ Rerun
    \/ Reload

Spec == Init /\ [][Next]_vars

(***************************************************************************)
(* calculate_roi on its own: any frame of up to MaxLen rows, then the ROI  *)
(* chart drawn from what it returned.                                      *)
(***************************************************************************)
RoiRows ==
    {[device_id |-> p[1], tipo |-> p[2],
      costo_mantenimiento |-> c, ingreso_arrendamiento |-> g] :
        p \in {<<"P001", "Impresora">>, <<"C001", "Computadora">>},
        c \in 0..MaxCost, g \in 0..MaxIncome}

Frames == UNION {[1..n -> RoiRows] : n \in 0..MaxLen}

InitRoi ==
    /\ current_date = FirstNow
    /\ device_tipo_filter = TipoOptions(devices)
    /\ device_select = DeviceOptions(devices)[1]
    /\ new_status = StatusOptions[1]
    /\ button = FALSE
    /\ stage = "built"
    /\ df_in \in Frames
    /\ df_roi = <<>>
    /\ df = <<>>
    /\ tab1 = <<>>
    /\ tab2 = <<>>
    /\ tab3 = <<>>
    /\ tab4 = <<>>

\* df = calculate_roi(df)
Derive ==
    /\ stage = "built"
    /\ stage' = "derived"
    /\ df_roi' = calculate_roi(df_in)
    /\ UNCHANGED <<current_date, device_tipo_filter, device_select, new_status,
                   button, df_in, df, tab1, tab2, tab3, tab4>>

\* px.bar(df, x='device_id', y='roi', color='tipo') and the cost pie
Plot ==
    /\ stage = "derived"
    /\ stage' = "rendered"
    /\ tab2' = Finance(df_roi)
    /\ UNCHANGED <<current_date, device_tipo_filter, device_select, new_status,
                   button, df_in, df_roi, df, tab1, tab3, tab4>>

NextRoi ==
    \/ Derive
    \/ Plot

SpecRoi == InitRoi /\ [][NextRoi]_vars

(***************************************************************************)
(* Properties                                                              *)
(***************************************************************************)
\* The integer a formatted amount shows before its decimal point.
RECURSIVE Amount(_)
Amount(chars) ==
    IF chars = <<>> THEN 0
    ELSE LET c == chars[Len(chars)]
             rest == SubSeq(chars, 1, Len(chars) - 1)
         IN  IF \E d \in 0..9 : DigitChar(d) = c
             THEN 10 * Amount(rest) + (CHOOSE d \in 0..9 : DigitChar(d) = c)
             ELSE Amount(rest)

Shown(chars) ==
    IF Len(chars) >= 3 /\ SubSeq(chars, Len(chars) - 2, Len(chars)) = <<".", "0", "0">>
    THEN Amount(SubSeq(chars, 1, Len(chars) - 3))
    ELSE -1

\* The sum of column c over the rows of frame whose index is in S.
RECURSIVE SumOver(_, _, _)
SumOver(frame, c, S) ==
    IF S = {} THEN 0
    ELSE LET i == CHOOSE j \in S : TRUE
         IN  frame[i][c] + SumOver(frame, c, S \ {i})

\* C1: a click on the update button shows a confirmation naming the selected
\* device and the selected status, no other run shows one, and no run changes
\* the status of any record: every run reads the statuses the run before read.
C1_StatusUpdateIsDisplayOnly ==
    [][ /\ Column(df_in', "status") = Column(df_in, "status")
        /\ Column(df', "status") = Column(df, "status")
        /\ button' => /\ Len(tab3'.message) = 4
                      /\ tab3'.message[2] = device_select'
                      /\ tab3'.message[4] = new_status'
        /\ ~button' => tab3'.message = NoMessage ]_vars

C1_Witness ==
    /\ button
    /\ device_select = "C002"
    /\ new_status = "Inactivo"
    /\ tab3.message = <<"Estado de ", "C002", " actualizado a ", "Inactivo">>
    /\ df[4].device_id = "C002"
    /\ df[4].status = "Mantenimiento"

\* C2: the filtered inventory table holds exactly the records whose category
\* is selected, each once and in dataset order; with the default selection
\* (all categories) it is the whole dataset.
C2_InventoryFilter ==
    LET sel == Range(device_tipo_filter)
        kept == {i \in DOMAIN df_roi : df_roi[i].tipo \in sel}
        out == tab3.filtered_df
    IN  /\ Len(out) = Cardinality(kept)
        /\ \A k \in DOMAIN out : \E i \in kept : out[k] = df_roi[i]
        /\ \A i \in kept : Cardinality({k \in DOMAIN out : out[k] = df_roi[i]}) = 1
        /\ \A k, l \in DOMAIN out : \A i, j \in kept :
              (k < l /\ out[k] = df_roi[i] /\ out[l] = df_roi[j]) => i < j
        /\ Len(tab3.table) = Len(out)
        /\ \A k \in DOMAIN out :
              \A c \in InventoryColumns : tab3.table[k][c] = out[k][c]
        /\ sel = Range(Column(df_roi, "tipo")) => out = df_roi

C2_Witness ==
    /\ device_tipo_filter = <<"Computadora">>
    /\ Len(tab3.filtered_df) = 2
    /\ tab3.filtered_df[1].device_id = "C001"
    /\ tab3.filtered_df[2].device_id = "C002"

\* C3: a record is in the 'expiring soon' table iff the days to expiration
\* computed in the same run are at most 60 (60 itself and negative values
\* included, 61 excluded); the table is shown iff some record qualifies.
C3_ExpiringSoon ==
    LET soon == tab4.expiring_soon
    IN  /\ \A i \in DOMAIN df :
              (\E k \in DOMAIN soon : soon[k] = df[i])
                  <=> df[i].dias_para_vencimiento <= 60
        /\ \A k \in DOMAIN soon : \E i \in DOMAIN df : soon[k] = df[i]
        /\ tab4.notice = "warning" <=> \E i \in DOMAIN df : df[i].dias_para_vencimiento <= 60
        /\ tab4.notice = "warning" =>
              /\ Len(tab4.table) = Len(soon)
              /\ \A k \in DOMAIN soon :
                    tab4.table[k].device_id = soon[k].device_id

C3_Witness ==
    /\ \E k \in DOMAIN tab4.expiring_soon :
          tab4.expiring_soon[k].dias_para_vencimiento = 60
    /\ \E i \in DOMAIN df : df[i].dias_para_vencimiento > 60

\* C4: days to expiration is lease_end minus the calendar date of the run,
\* whatever the time of day of the run.
C4_DaysDependOnlyOnDate ==
    \A i \in DOMAIN df :
        df[i].dias_para_vencimiento
            = toordinal(df[i].final_arrendamiento) - DateOf(current_date)

\* C5: calculate_roi returns one row per input row, in input order, each the
\* input row plus roi; for a row with a positive cost roi is the finite
\* value (income - cost) / cost * 100.
C5_RoiFormula ==
    stage \in {"derived", "rendered"} =>
        /\ Len(df_roi) = Len(df_in)
        /\ \A i \in DOMAIN df_in :
              /\ DOMAIN df_roi[i] = (DOMAIN df_in[i]) \cup {"roi"}
              /\ \A f \in DOMAIN df_in[i] : df_roi[i][f] = df_in[i][f]
              /\ df_in[i].costo_mantenimiento > 0 =>
                    /\ df_roi[i].roi.kind = "finite"
                    /\ df_roi[i].roi.den > 0
                    /\ df_roi[i].roi.num * df_in[i].costo_mantenimiento
                         = (df_in[i].ingreso_arrendamiento - df_in[i].costo_mantenimiento)
                             * 100 * df_roi[i].roi.den

C5_Witness ==
    /\ stage = "derived"
    /\ Len(df_roi) = 2
    /\ df_roi[1].device_id = "P001"
    /\ df_roi[1].costo_mantenimiento = 2
    /\ df_roi[1].ingreso_arrendamiento = 3
    /\ df_roi[1].roi = [kind |-> "finite", num |-> 50, den |-> 1]
    /\ df_roi[2].device_id = "C001"
    /\ df_roi[2].costo_mantenimiento = 1
    /\ df_roi[2].ingreso_arrendamiento = 0
    /\ df_roi[2].roi = [kind |-> "finite", num |-> -100, den |-> 1]

\* C6: no infinite or NaN roi reaches the ROI chart: a row with a zero cost
\* is reported or left out, never drawn with such a value.
C6_ZeroCostPolicy ==
    stage = "rendered" =>
        \A i \in DOMAIN tab2.fig_roi : tab2.fig_roi[i].y.kind \notin {"inf", "nan"}

\* C7: whatever the filter and the update controls hold, the Overview shows
\* the count of all records and the sums of income and cost over all of
\* them: 4, 7800 and 2000.
C7_OverviewUnfiltered ==
    /\ tab1.total = Cardinality(DOMAIN df)
    /\ tab1.total = 4
    /\ Shown(tab1.ingreso) = SumOver(df, "ingreso_arrendamiento", DOMAIN df)
    /\ Shown(tab1.costo) = SumOver(df, "costo_mantenimiento", DOMAIN df)
    /\ tab1.ingreso = <<"$", "7", ",", "8", "0", "0", ".", "0", "0">>
    /\ tab1.costo = <<"$", "2", ",", "0", "0", "0", ".", "0", "0">>

C7_Witness ==
    /\ device_tipo_filter = <<"Computadora">>
    /\ device_select = "P002"
    /\ new_status = "Mantenimiento"
    /\ Len(tab3.filtered_df) = 2
    /\ tab1.total = 4

\* C8: the lease summary has one row per category of the dataset, holding
\* the count, the income sum, the earliest start and the latest end of that
\* category's records, whatever the filter; the Impresora row is
\* 2, 4500, 2024-01-01, 2024-12-31.
C8_LeaseSummary ==
    LET rows == tab4.lease_summary
        cats == {df[i].tipo : i \in DOMAIN df}
    IN  /\ Len(rows) = Cardinality(cats)
        /\ \A c \in cats :
              LET members == {i \in DOMAIN df : df[i].tipo = c}
              IN  \E j \in DOMAIN rows :
                    /\ rows[j].tipo = c
                    /\ \A k \in DOMAIN rows : rows[k].tipo = c => k = j
                    /\ rows[j].device_id = Cardinality(members)
                    /\ rows[j].ingreso_arrendamiento
                         = SumOver(df, "ingreso_arrendamiento", members)
                    /\ \E i \in members :
                          rows[j].inicio_arrendamiento = df[i].inicio_arrendamiento
                    /\ \A i \in members :
                          toordinal(rows[j].inicio_arrendamiento)
                              <= toordinal(df[i].inicio_arrendamiento)
                    /\ \E i \in members :
                          rows[j].final_arrendamiento = df[i].final_arrendamiento
                    /\ \A i \in members :
                          toordinal(rows[j].final_arrendamiento)
                              >= toordinal(df[i].final_arrendamiento)
        /\ \E j \in DOMAIN rows :
              rows[j] = [tipo |-> "Impresora", device_id |-> 2,
                         ingreso_arrendamiento |-> 4500,
                         inicio_arrendamiento |-> datetime(2024, 1, 1),
                         final_arrendamiento |-> datetime(2024, 12, 31)]

C8_Witness ==
    /\ device_tipo_filter = <<"Computadora">>
    /\ Len(tab3.filtered_df) = 2
    /\ Len(tab4.lease_summary) = 2
    /\ tab4.lease_summary[2].tipo = "Impresora"

\* C9: every run is handed the record sequence the run before was handed
\* (so the one the first run was handed), and the frame at the end of a run
\* differs from the previous one in dias_para_vencimiento at most; in that
\* sequence device ids are unique and no lease ends before it starts.
C9_BuilderIdempotent ==
    /\ [][ /\ df_in' = df_in
           /\ Len(df') = Len(df)
           /\ \A i \in DOMAIN df : \A f \in (DOMAIN df[i]) \ {"dias_para_vencimiento"} :
                 df'[i][f] = df[i][f] ]_vars
    /\ [](/\ \A i, j \in DOMAIN df_in :
               df_in[i].device_id = df_in[j].device_id => i = j
          /\ \A i \in DOMAIN df_in :
               toordinal(df_in[i].inicio_arrendamiento)
                   <= toordinal(df_in[i].final_arrendamiento))

C9_Witness ==
    /\ button
    /\ device_tipo_filter = <<>>
    /\ new_status = "Inactivo"
    /\ Len(df_in) = 4
    /\ \E i \in DOMAIN df : df[i].dias_para_vencimiento < 0

\* C10: the active-device metric is the number of records whose status is
\* the literal 'Active', which is zero for the sample data at every run,
\* while the status chart counts 3 'Activo' and 1 'Mantenimiento'.
C10_ActiveCountIsZero ==
    /\ tab1.activos = Cardinality({i \in DOMAIN df : df[i].status = "Active"})
    /\ tab1.activos = 0
    /\ DOMAIN tab1.status_counts = {"Activo", "Mantenimiento"}
    /\ tab1.status_counts["Activo"] = 3
    /\ tab1.status_counts["Mantenimiento"] = 1

C10_Witness ==
    /\ button
    /\ device_select = "P001"
    /\ new_status = "Mantenimiento"
    /\ device_tipo_filter = <<"Impresora">>
    /\ tab1.activos = 0

====
